---- MODULE Spec2Model ----
(***************************************************************************)
(* A model of app.py: the /analyze endpoint of the health rumor detector.  *)
(*                                                                         *)
(* JSON text is modelled as a sequence of tokens (punctuation, the literal *)
(* null, quoted string literals, and bare prose), JSON values as trees.    *)
(* json.loads is a recursive-descent parser over tokens and json.dumps a   *)
(* serializer to tokens, so that a round trip is something to be checked.  *)
(* White space between tokens is not modelled.                             *)
(***************************************************************************)
EXTENDS Integers, Sequences, FiniteSets, TLC

(***************************************************************************)
(* Bounds of the model.                                                    *)
(***************************************************************************)
\* the retry budgets call_model is exercised with are 0..MaxRetries
MaxRetries == 2
\* the number of requests with a text that the service receives in one
\* behaviour (requests it rejects are not counted)
MaxRequests == 2
\* the length of the `text` field of a request body, in characters
MaxInputLen == 2
\* the number of request threads the host runs in the concurrent specification
NumThreads == 2

(***************************************************************************)
(* JSON values.  Every node has the same three fields so that any two      *)
(* nodes can be compared: t is the type, s the string content (the key,    *)
(* for a member of an object), items the children.                         *)
(***************************************************************************)
Null == [t |-> "null", s |-> "", items |-> <<>>]
Str(tok) == [t |-> "str", s |-> tok, items |-> <<>>]
List(vs) == [t |-> "list", s |-> "", items |-> vs]
Pair(k, v) == [t |-> "pair", s |-> k, items |-> <<v>>]
Obj(pairs) == [t |-> "obj", s |-> "", items |-> pairs]

\* the quoted string literals that occur in the model, one token each
KeyConclusion == "\"conclusion\""
KeyExplanation == "\"explanation\""
KeySources == "\"sources\""
KeyTitle == "\"title\""
KeyLink == "\"link\""
KeyRaw == "\"raw_model_output\""
StrUnknown == "\"unknown\""
StrEmpty == "\"\""
StrRumor == "\"rumor\""
StrBraces == "\"}{\""
StrReason == "\"Short reason.\""
StrPlaceholderTitle == "\"Example Scientific Source\""
StrPlaceholderLink == "\"https://www.ncbi.nlm.nih.gov/pmc/articles/\""
StrFailedNoError == "\"DeepSeek API failed or unparseable: \""
StrFailedWithError == "\"DeepSeek API failed or unparseable: <error>\""
StrUnparseable == "\"unparseable model result\""
StrRawText == "\"<model_text>\""
StrNihTitle == "\"NIH Diabetes\""
StrNihLink == "\"https://www.niddk.nih.gov\""

StringTokens ==
    { KeyConclusion, KeyExplanation, KeySources, KeyTitle, KeyLink, KeyRaw,
      StrUnknown, StrEmpty, StrRumor, StrBraces, StrReason,
      StrPlaceholderTitle, StrPlaceholderLink, StrFailedNoError,
      StrFailedWithError, StrUnparseable, StrRawText, StrNihTitle,
      StrNihLink }

\* tokens in which the character { , respectively } , occurs
HasOpenBrace(tok) == tok \in {"{", StrBraces}
HasCloseBrace(tok) == tok \in {"}", StrBraces}

(***************************************************************************)
(* str.find / str.rfind / slicing, with Python's 0-based indices.          *)
(***************************************************************************)
Min(a, b) == IF a < b THEN a ELSE b
Max(a, b) == IF a > b THEN a ELSE b

\* text.find("{"): the index of the first { , or -1
FindOpen(text) ==
    LET hits == { i \in 1..Len(text) : HasOpenBrace(text[i]) }
    IN  IF hits = {} THEN -1
        ELSE (CHOOSE i \in hits : \A j \in hits : i <= j) - 1

\* text.rfind("}"): the index of the last } , or -1
RFindClose(text) ==
    LET hits == { i \in 1..Len(text) : HasCloseBrace(text[i]) }
    IN  IF hits = {} THEN -1
        ELSE (CHOOSE i \in hits : \A j \in hits : i >= j) - 1

\* text[start:end]: negative indices count from the end, both are clamped
PySlice(text, start, end) ==
    LET n == Len(text)
        a == IF start < 0 THEN Max(n + start, 0) ELSE Min(start, n)
        b == IF end < 0 THEN Max(n + end, 0) ELSE Min(end, n)
    IN  IF a >= b THEN <<>> ELSE SubSeq(text, a + 1, b)

\* a variant of ExtractBraces that leaves the + 1 out
ExtractBracesOffByOne(text) == PySlice(text, FindOpen(text), RFindClose(text))

\* the brace-bounded substring: text[text.find("{") : text.rfind("}") + 1]
ExtractBraces(text) == PySlice(text, FindOpen(text), RFindClose(text) + 1)

(***************************************************************************)
(* json.loads: a recursive-descent parser.  A result is                    *)
(* [ok, v, rest]: whether a value was read, the value, the tokens left.    *)
(***************************************************************************)
ParseFail == [ok |-> FALSE, v |-> Null, rest |-> <<>>]
ParseOk(val, remaining) == [ok |-> TRUE, v |-> val, rest |-> remaining]

\* dict semantics: a repeated key keeps its first position and takes the
\* last value
DictSet(pairs, k, v) ==
    IF \E i \in 1..Len(pairs) : pairs[i].s = k
    THEN [i \in 1..Len(pairs) |-> IF pairs[i].s = k THEN Pair(k, v) ELSE pairs[i]]
    ELSE Append(pairs, Pair(k, v))

RECURSIVE ParseValue(_), ParseItems(_, _, _), ParseMembers(_, _, _)

ParseValue(toks) ==
    IF toks = <<>> THEN ParseFail
    ELSE LET h == Head(toks) IN
         CASE h = "null" -> ParseOk(Null, Tail(toks))
           [] h \in StringTokens -> ParseOk(Str(h), Tail(toks))
           [] h = "[" -> ParseItems(Tail(toks), <<>>, TRUE)
           [] h = "{" -> ParseMembers(Tail(toks), <<>>, TRUE)
           [] OTHER -> ParseFail

\* the elements of an array, after its [ ; first: nothing was read yet
ParseItems(toks, acc, first) ==
    IF toks = <<>> THEN ParseFail
    ELSE IF first /\ Head(toks) = "]" THEN ParseOk(List(acc), Tail(toks))
    ELSE LET r == ParseValue(toks) IN
         IF ~r.ok \/ r.rest = <<>> THEN ParseFail
         ELSE IF Head(r.rest) = "]"
              THEN ParseOk(List(Append(acc, r.v)), Tail(r.rest))
         ELSE IF Head(r.rest) = ","
              THEN ParseItems(Tail(r.rest), Append(acc, r.v), FALSE)
         ELSE ParseFail

\* the members of an object, after its { ; first: nothing was read yet
ParseMembers(toks, acc, first) ==
    IF toks = <<>> THEN ParseFail
    ELSE IF first /\ Head(toks) = "}" THEN ParseOk(Obj(acc), Tail(toks))
    ELSE IF Len(toks) < 3 \/ Head(toks) \notin StringTokens \/ toks[2] # ":"
         THEN ParseFail
    ELSE LET r == ParseValue(Tail(Tail(toks))) IN
         IF ~r.ok \/ r.rest = <<>> THEN ParseFail
         ELSE IF Head(r.rest) = "}"
              THEN ParseOk(Obj(DictSet(acc, Head(toks), r.v)), Tail(r.rest))
         ELSE IF Head(r.rest) = ","
              THEN ParseMembers(Tail(r.rest), DictSet(acc, Head(toks), r.v), FALSE)
         ELSE ParseFail

\* json.loads(text): one value and nothing after it, else an exception
\* (ok = FALSE)
JsonLoads(text) ==
    LET r == ParseValue(text)
    IN  IF r.ok /\ r.rest = <<>> THEN r ELSE ParseFail

(***************************************************************************)
(* json.dumps.                                                             *)
(***************************************************************************)
RECURSIVE JsonDumps(_), DumpsJoin(_, _)

\* the serializations of the children, separated by commas
DumpsJoin(nodes, i) ==
    IF i > Len(nodes) THEN <<>>
    ELSE (IF i > 1 THEN <<",">> ELSE <<>>) \o JsonDumps(nodes[i])
         \o DumpsJoin(nodes, i + 1)

JsonDumps(node) ==
    CASE node.t = "null" -> <<"null">>
      [] node.t = "str" -> <<node.s>>
      [] node.t = "list" -> <<"[">> \o DumpsJoin(node.items, 1) \o <<"]">>
      [] node.t = "pair" -> <<node.s, ":">> \o JsonDumps(node.items[1])
      [] node.t = "obj" -> <<"{">> \o DumpsJoin(node.items, 1) \o <<"}">>

(***************************************************************************)
(* dict operations on an object node.                                      *)
(***************************************************************************)
HasKey(obj, k) == \E i \in 1..Len(obj.items) : obj.items[i].s = k

\* obj.get(k): the value, or None (Null) when the key is absent
Get(obj, k) ==
    IF HasKey(obj, k)
    THEN (obj.items[CHOOSE i \in 1..Len(obj.items) : obj.items[i].s = k]).items[1]
    ELSE Null

\* obj[k] = v
SetKey(obj, k, v) == Obj(DictSet(obj.items, k, v))

\* truthiness of a parsed value: None and empty containers/strings are falsy
Truthy(node) ==
    CASE node.t = "null" -> FALSE
      [] node.t = "str" -> node.s # StrEmpty
      [] OTHER -> node.items # <<>>

(***************************************************************************)
(* call_model: one attempt's handling of the provider's response.          *)
(***************************************************************************)
\* the placeholder source
PlaceholderSource ==
    Obj(<<Pair(KeyTitle, Str(StrPlaceholderTitle)),
          Pair(KeyLink, Str(StrPlaceholderLink))>>)

\* what the provider does on one attempt: raise, answer with no choices,
\* answer with no message content, or answer with a text
RaiseOutcome == [kind |-> "raise", text |-> <<>>]
NoChoicesOutcome == [kind |-> "nochoices", text |-> <<>>]
NoContentOutcome == [kind |-> "nocontent", text |-> <<>>]
TextOutcome(text) == [kind |-> "text", text |-> text]
NoResponse == [kind |-> "none", text |-> <<>>]

\* response.choices[0].message.content.strip(), "" on AttributeError
ResponseText(resp) == IF resp.kind = "nocontent" THEN <<>> ELSE resp.text

\* the parse of the brace-bounded substring; None (Null) on any exception
ModelParse(text) ==
    LET r == JsonLoads(ExtractBraces(text))
    IN  IF r.ok THEN r.v ELSE Null

\* `if parsed:`
Accepts(parsed) == Truthy(parsed)

\* parsed[key] = ... for each required key that is missing
BackfillKey(obj, k) ==
    IF HasKey(obj, k) THEN obj
    ELSE SetKey(obj, k, IF k = KeySources THEN List(<<>>) ELSE Str(StrUnknown))

Backfill(parsed) ==
    BackfillKey(BackfillKey(BackfillKey(parsed, KeyConclusion), KeyExplanation),
                KeySources)

\* the value call_model returns on a successful attempt
ModelReturn(parsed) == JsonDumps(Backfill(parsed))

\* str(e) of the exception an attempt ended with: some message
ErrorUnset == "<unset>"
ErrorOf(resp) == "<error>"

\* the default structure returned when every attempt failed
FallbackExplanation(err) ==
    IF err = ErrorUnset THEN StrFailedNoError ELSE StrFailedWithError

\* a variant of FallbackObject with the conclusion of the prompt's example
FallbackObjectRumor(err) ==
    Obj(<<Pair(KeyConclusion, Str(StrRumor)),
          Pair(KeyExplanation, Str(FallbackExplanation(err))),
          Pair(KeySources, List(<<PlaceholderSource>>))>>)

FallbackObject(err) ==
    Obj(<<Pair(KeyConclusion, Str(StrUnknown)),
          Pair(KeyExplanation, Str(FallbackExplanation(err))),
          Pair(KeySources, List(<<PlaceholderSource>>))>>)

\* a variant of FallbackReturn that returns the message, not the structure
FallbackReturnPlain(err) == <<FallbackExplanation(err)>>

FallbackReturn(err) == JsonDumps(FallbackObject(err))

(***************************************************************************)
(* analyze: input validation and normalization of call_model's string.     *)
(***************************************************************************)
Chars == {" ", "a"}

RECURSIVE LStrip(_)
LStrip(s) == IF s # <<>> /\ Head(s) = " " THEN LStrip(Tail(s)) ELSE s

RECURSIVE RStrip(_)
RStrip(s) ==
    IF s # <<>> /\ s[Len(s)] = " " THEN RStrip(SubSeq(s, 1, Len(s) - 1)) ELSE s

\* str.strip()
Strip(s) == RStrip(LStrip(s))

\* the object analyze works on: the re-parse of model_text, or the fixed
\* fallback object
AnalyzeFallback ==
    Obj(<<Pair(KeyConclusion, Str(StrUnknown)),
          Pair(KeyExplanation, Str(StrUnparseable)),
          Pair(KeySources, List(<<PlaceholderSource>>))>>)

AnalyzeParse(model_text) ==
    LET r == JsonLoads(ExtractBraces(model_text))
    IN  IF r.ok THEN r.v ELSE AnalyzeFallback

\* a variant of SourcesBlank that tests for None only
SourcesNone(parsed) == Get(parsed, KeySources) = Null

\* parsed.get("sources") in (None, [], "")
SourcesBlank(parsed) ==
    Get(parsed, KeySources) \in {Null, List(<<>>), Str(StrEmpty)}

EnsureSources(parsed) ==
    IF SourcesBlank(parsed)
    THEN SetKey(parsed, KeySources, List(<<PlaceholderSource>>))
    ELSE parsed

BuildResult(parsed, model_text) ==
    [conclusion |-> Get(parsed, KeyConclusion),
     explanation |-> Get(parsed, KeyExplanation),
     sources |-> Get(parsed, KeySources),
     raw_model_output |-> model_text]

Normalized(model_text) ==
    BuildResult(EnsureSources(AnalyzeParse(model_text)), model_text)

NoResult ==
    [conclusion |-> Null, explanation |-> Null, sources |-> Null,
     raw_model_output |-> <<>>]

\* the result as the JSON object that is logged; the raw text is one string
ResultNode(result) ==
    Obj(<<Pair(KeyConclusion, result.conclusion),
          Pair(KeyExplanation, result.explanation),
          Pair(KeySources, result.sources),
          Pair(KeyRaw, Str(StrRawText))>>)

NoEntry == [timestamp |-> "", user_text |-> <<>>, result |-> <<>>]

LogEntry(user_text, result) ==
    [timestamp |-> "utcnow", user_text |-> user_text,
     result |-> JsonDumps(ResultNode(result))]

\* the HTTP responses
NoReply == [status |-> 0, error |-> "", result |-> NoResult]
Reply400 == [status |-> 400, error |-> "No text provided.", result |-> NoResult]
Reply500 == [status |-> 500, error |-> "Internal Server Error", result |-> NoResult]
Reply200(result) == [status |-> 200, error |-> "", result |-> result]

(***************************************************************************)
(* append_log: the CSV file.  A row of the file is kept as its kind and    *)
(* its cells; the cells of a data row are abstracted to the field they     *)
(* hold the value of.                                                      *)
(***************************************************************************)
FieldNames == <<"timestamp", "user_text", "result">>

HeaderRow == [kind |-> "header", cells |-> FieldNames]

\* DictWriter.writerow: one cell per field name, in the order of fieldnames
DataRow(entry) ==
    [kind |-> "data",
     cells |-> [i \in 1..Len(FieldNames) |->
                  IF FieldNames[i] \in DOMAIN entry THEN FieldNames[i] ELSE ""]]

\* a variant of HeaderIfNew that ignores the result of os.path.exists
HeaderAlways(file_exists) == <<HeaderRow>>

\* what writeheader puts in the buffer, given the result of os.path.exists
HeaderIfNew(file_exists) == IF file_exists THEN <<>> ELSE <<HeaderRow>>

(***************************************************************************)
(* The inputs: request bodies and the provider's behaviour on an attempt.  *)
(***************************************************************************)
\* request bodies: a JSON object without `text`, with `text` null, or with
\* `text` a string of at most MaxInputLen characters
Bodies ==
    { [kind |-> "absent", text |-> <<>>], [kind |-> "null", text |-> <<>>] }
    \cup { [kind |-> "string", text |-> s] :
             s \in UNION { [1..n -> Chars] : n \in 0..MaxInputLen } }

NihSource ==
    Obj(<<Pair(KeyTitle, Str(StrNihTitle)), Pair(KeyLink, Str(StrNihLink))>>)

\* the values the provider may give each required key, when it gives one:
\* those the prompt asks for and those it does not (null, a string with
\* braces in it, a string or an object in place of the list)
ConclusionValues == { Null, Str(StrRumor) }
ExplanationValues == { Null, Str(StrBraces) }
SourcesValues ==
    { Null, List(<<>>), Str(StrEmpty), Str(StrRumor), Obj(<<>>),
      List(<<NihSource>>) }

ValuesOf(k) ==
    CASE k = KeyConclusion -> ConclusionValues
      [] k = KeyExplanation -> ExplanationValues
      [] k = KeySources -> SourcesValues

KeyOrders ==
    { <<KeyConclusion, KeyExplanation, KeySources>>,
      <<KeySources, KeyExplanation, KeyConclusion>> }

\* the objects the provider may answer with: any subset of the required
\* keys, in either order, with any of the values above
UpstreamObjects ==
    UNION { UNION {
        LET keys == SelectSeq(order, LAMBDA k : k \in present)
        IN  { Obj([i \in 1..Len(keys) |-> Pair(keys[i], vals[i])]) :
                vals \in { f \in [1..Len(keys) -> UNION { ValuesOf(k) : k \in present }] :
                              \A i \in 1..Len(keys) : f[i] \in ValuesOf(keys[i]) } }
      : order \in KeyOrders } : present \in SUBSET {KeyConclusion, KeyExplanation, KeySources} }

\* an object as the prompt asks for it
GoodObject ==
    Obj(<<Pair(KeyConclusion, Str(StrRumor)),
          Pair(KeyExplanation, Str(StrReason)),
          Pair(KeySources, List(<<NihSource>>))>>)

\* texts that are not an object on their own
OddTexts ==
    { <<>>, <<"prose">>, <<"}", "{">>, <<"{">>, <<"prose", "}">>,
      <<"[", "]">>, <<"null">>, <<StrRumor>>,
      <<"[">> \o JsonDumps(NihSource) \o <<"]">>,
      SubSeq(JsonDumps(GoodObject), 1, Len(JsonDumps(GoodObject)) - 1),
      JsonDumps(GoodObject) \o <<"}">>,
      <<"{", KeyConclusion, ":", "null", ",", KeyConclusion, ":", StrRumor, "}">>,
      <<"{", KeyConclusion, ":", StrRumor, ",", "}">>,
      <<"{", KeyConclusion, ":", StrBraces>>,
      <<"{", KeyConclusion, StrRumor, "}">>,
      <<"{", KeySources, ":", "[", StrRumor, ",", "]", "}">>,
      <<"{", "}", "{", "}">> }

\* the texts the provider may answer with: an object alone or wrapped in
\* prose, or one of the odd texts
UpstreamTexts ==
    { JsonDumps(o) : o \in UpstreamObjects \cup {GoodObject} }
    \cup { <<"prose">> \o JsonDumps(o) \o <<"prose">> : o \in UpstreamObjects }
    \cup OddTexts

Outcomes ==
    { RaiseOutcome, NoChoicesOutcome, NoContentOutcome }
    \cup { TextOutcome(text) : text \in UpstreamTexts }

\* the provider answering as the prompt asks
GoodOutcomes == { TextOutcome(JsonDumps(GoodObject)) }

(***************************************************************************)
(* The state.  Each request thread t runs analyze; pc[t] is its position.  *)
(***************************************************************************)
VARIABLES
    pc,          \* the position of each thread in analyze / call_model / append_log
    user_text,   \* analyze: the stripped text of the request
    retries,     \* call_model: the retry budget of the running call
    attempt,     \* call_model: the loop variable
    last_error,  \* call_model: str(e) of the last exception, ErrorUnset before
    response,    \* call_model: the provider's response of the running attempt
    parsed,      \* call_model: the object whose serialization it returned
    model_text,  \* analyze: the string call_model returned
    result,      \* analyze: the result dictionary
    log_entry,   \* analyze: the row handed to append_log
    file_exists, \* append_log: what os.path.exists returned
    buffer,      \* append_log: rows written to the file object, not yet on disk
    reply,       \* the HTTP response to the thread's last request
    logs,        \* logs.csv: whether it exists and its rows
    started,     \* the number of requests that passed validation
    served,      \* the number of requests answered 200
    calls,       \* history: the completion calls the request has issued
    sleeps,      \* history: the time.sleep(1) calls of the request
    genuine,     \* history: every attempt treated as failed ended with an
                 \* exception or with output that does not parse
    only_nonjson,\* history: every attempt was answered with a text that
                 \* holds no parseable JSON
    lacked       \* history: the last answer was an object without `sources`

vars ==
    <<pc, user_text, retries, attempt, last_error, response, parsed,
      model_text, result, log_entry, file_exists, buffer, reply, logs,
      started, served, calls, sleeps, genuine, only_nonjson, lacked>>

Threads == DOMAIN pc

\* no request has been received; the log file does not exist
InitFor(threads) ==
    /\ pc = [t \in threads |-> "idle"]
    /\ user_text = [t \in threads |-> <<>>]
    /\ retries = [t \in threads |-> 0]
    /\ attempt = [t \in threads |-> 0]
    /\ last_error = [t \in threads |-> ErrorUnset]
    /\ response = [t \in threads |-> NoResponse]
    /\ parsed = [t \in threads |-> Null]
    /\ model_text = [t \in threads |-> <<>>]
    /\ result = [t \in threads |-> NoResult]
    /\ log_entry = [t \in threads |-> NoEntry]
    /\ file_exists = [t \in threads |-> FALSE]
    /\ buffer = [t \in threads |-> <<>>]
    /\ reply = [t \in threads |-> NoReply]
    /\ logs = [exists |-> FALSE, rows |-> <<>>]
    /\ started = 0
    /\ served = 0
    /\ calls = [t \in threads |-> 0]
    /\ sleeps = [t \in threads |-> 0]
    /\ genuine = [t \in threads |-> TRUE]
    /\ only_nonjson = [t \in threads |-> TRUE]
    /\ lacked = [t \in threads |-> FALSE]

\* one request at a time
Init == InitFor({1})

\* the host dispatches requests on NumThreads threads
InitConc == InitFor(1..NumThreads)

\* how the provider behaved on an attempt: it raised (or its envelope made
\* the code raise), or its text does or does not hold parseable JSON
AttemptKind(resp) ==
    CASE resp.kind \in {"raise", "nochoices"} -> "exception"
      [] ~JsonLoads(ExtractBraces(ResponseText(resp))).ok -> "unparseable"
      [] OTHER -> "parseable"

\* the answer holds a JSON object without the sources key
LacksSources(resp) ==
    /\ AttemptKind(resp) = "parseable"
    /\ ~HasKey(JsonLoads(ExtractBraces(ResponseText(resp))).v, KeySources)

(***************************************************************************)
(* analyze, lines 130-138: validation, then the call of call_model with    *)
(* budget r (analyze itself passes the default).                           *)
(***************************************************************************)
\* a variant of Validate that leaves strip out
ValidateNoStrip(body) ==
    IF body.kind = "null" THEN "500"
    ELSE IF body.text = <<>> THEN "400"
    ELSE "create"

\* what analyze does with the body: fail with 500 (None has no strip),
\* answer 400 (nothing is left after strip), or go on to call_model
Validate(body) ==
    IF body.kind = "null" THEN "500"
    ELSE IF Strip(body.text) = <<>> THEN "400"
    ELSE "create"

\* range(retries + 1) is empty for a negative budget only
LoopEntry(r) == IF 0 < r + 1 THEN "create" ELSE "exhausted"

Receive(t, body, r) ==
    /\ pc[t] = "idle"
    /\ IF Validate(body) = "create"
       THEN /\ started < MaxRequests
            /\ started' = started + 1
            /\ user_text' = [user_text EXCEPT ![t] = Strip(body.text)]
            /\ retries' = [retries EXCEPT ![t] = r]
            /\ pc' = [pc EXCEPT ![t] = LoopEntry(r)]
            /\ reply' = [reply EXCEPT ![t] = NoReply]
       ELSE /\ reply' = [reply EXCEPT ![t] =
                           IF Validate(body) = "400" THEN Reply400 ELSE Reply500]
            /\ UNCHANGED <<user_text, retries, pc, started>>
    /\ only_nonjson' = [only_nonjson EXCEPT ![t] = TRUE]
    /\ lacked' = [lacked EXCEPT ![t] = FALSE]
    /\ calls' = [calls EXCEPT ![t] = 0]
    /\ sleeps' = [sleeps EXCEPT ![t] = 0]
    /\ UNCHANGED <<attempt, last_error, response, parsed, model_text, result,
                   log_entry, file_exists, buffer, logs, served, genuine>>

(***************************************************************************)
(* call_model, lines 68-111.                                               *)
(***************************************************************************)
\* where the loop goes after a failed attempt
AfterFailure(next_attempt, r) ==
    IF next_attempt < r + 1 THEN "create" ELSE "exhausted"

\* client.chat.completions.create(...) raises: lines 70, 102-104
CreateRaises(t) ==
    /\ pc[t] = "create"
    /\ calls' = [calls EXCEPT ![t] = @ + 1]
    /\ last_error' = [last_error EXCEPT ![t] = ErrorOf(RaiseOutcome)]
    /\ sleeps' = [sleeps EXCEPT ![t] = @ + 1]
    /\ attempt' = [attempt EXCEPT ![t] = @ + 1]
    /\ pc' = [pc EXCEPT ![t] = AfterFailure(attempt[t] + 1, retries[t])]
    /\ only_nonjson' = [only_nonjson EXCEPT ![t] = FALSE]
    /\ lacked' = [lacked EXCEPT ![t] = FALSE]
    /\ UNCHANGED <<user_text, retries, response, parsed, model_text, result,
                   log_entry, file_exists, buffer, reply, logs, started,
                   served, genuine>>

\* client.chat.completions.create(...) returns a response: lines 70-75
CreateReturns(t, resp) ==
    /\ pc[t] = "create"
    /\ resp.kind # "raise"
    /\ calls' = [calls EXCEPT ![t] = @ + 1]
    /\ response' = [response EXCEPT ![t] = resp]
    /\ pc' = [pc EXCEPT ![t] = "parse"]
    /\ only_nonjson' = [only_nonjson EXCEPT ![t] =
                          @ /\ resp.kind = "text" /\ AttemptKind(resp) = "unparseable"]
    /\ lacked' = [lacked EXCEPT ![t] = LacksSources(resp)]
    /\ UNCHANGED <<user_text, retries, attempt, last_error, parsed,
                   model_text, result, log_entry, file_exists, buffer, reply,
                   logs, started, served, sleeps, genuine>>

\* response.choices[0] raises IndexError: lines 79, 102-104
EnvelopeRaises(t) ==
    /\ pc[t] = "parse"
    /\ response[t].kind = "nochoices"
    /\ last_error' = [last_error EXCEPT ![t] = ErrorOf(response[t])]
    /\ sleeps' = [sleeps EXCEPT ![t] = @ + 1]
    /\ attempt' = [attempt EXCEPT ![t] = @ + 1]
    /\ response' = [response EXCEPT ![t] = NoResponse]
    /\ pc' = [pc EXCEPT ![t] = AfterFailure(attempt[t] + 1, retries[t])]
    /\ UNCHANGED <<user_text, retries, parsed, model_text, result, log_entry,
                   file_exists, buffer, reply, logs, started, served, calls,
                   genuine, only_nonjson, lacked>>

\* call_model's locals are gone when it returns
ReturnLocals(t) ==
    /\ retries' = [retries EXCEPT ![t] = 0]
    /\ attempt' = [attempt EXCEPT ![t] = 0]
    /\ last_error' = [last_error EXCEPT ![t] = ErrorUnset]
    /\ response' = [response EXCEPT ![t] = NoResponse]
    /\ genuine' = [genuine EXCEPT ![t] = TRUE]

\* the parse is accepted, the attempt returns: lines 78-97
AttemptReturns(t) ==
    /\ pc[t] = "parse"
    /\ response[t].kind # "nochoices"
    /\ Accepts(ModelParse(ResponseText(response[t])))
    /\ parsed' = [parsed EXCEPT ![t] = Backfill(ModelParse(ResponseText(response[t])))]
    /\ model_text' = [model_text EXCEPT ![t] =
                        ModelReturn(ModelParse(ResponseText(response[t])))]
    /\ pc' = [pc EXCEPT ![t] = "normalize"]
    /\ ReturnLocals(t)
    /\ UNCHANGED <<user_text, result, log_entry, file_exists, buffer, reply,
                   logs, started, served, calls, sleeps, only_nonjson,
                   lacked>>

\* the parse is not accepted, the attempt sleeps: lines 78-93, 100
AttemptFails(t) ==
    /\ pc[t] = "parse"
    /\ response[t].kind # "nochoices"
    /\ ~Accepts(ModelParse(ResponseText(response[t])))
    /\ sleeps' = [sleeps EXCEPT ![t] = @ + 1]
    /\ attempt' = [attempt EXCEPT ![t] = @ + 1]
    /\ response' = [response EXCEPT ![t] = NoResponse]
    /\ pc' = [pc EXCEPT ![t] = AfterFailure(attempt[t] + 1, retries[t])]
    /\ genuine' = [genuine EXCEPT ![t] =
                     @ /\ AttemptKind(response[t]) = "unparseable"]
    /\ UNCHANGED <<user_text, retries, last_error, parsed, model_text,
                   result, log_entry, file_exists, buffer, reply, logs,
                   started, served, calls, only_nonjson, lacked>>

\* every attempt failed, the default structure is returned: lines 106-111
Fallback(t) ==
    /\ pc[t] = "exhausted"
    /\ parsed' = [parsed EXCEPT ![t] = FallbackObject(last_error[t])]
    /\ model_text' = [model_text EXCEPT ![t] = FallbackReturn(last_error[t])]
    /\ pc' = [pc EXCEPT ![t] = "normalize"]
    /\ ReturnLocals(t)
    /\ UNCHANGED <<user_text, result, log_entry, file_exists, buffer, reply,
                   logs, started, served, calls, sleeps, only_nonjson,
                   lacked>>

(***************************************************************************)
(* analyze, lines 142-171.                                                 *)
(***************************************************************************)
Normalize(t) ==
    /\ pc[t] = "normalize"
    /\ result' = [result EXCEPT ![t] = Normalized(model_text[t])]
    /\ log_entry' = [log_entry EXCEPT ![t] =
                       LogEntry(user_text[t], Normalized(model_text[t]))]
    /\ pc' = [pc EXCEPT ![t] = "log_exists"]
    /\ UNCHANGED <<user_text, retries, attempt, last_error, response, parsed,
                   model_text, file_exists, buffer, reply, logs, started,
                   served, calls, sleeps, genuine, only_nonjson, lacked>>

(***************************************************************************)
(* append_log, lines 116-121.                                              *)
(***************************************************************************)
\* file_exists = os.path.exists(LOGS_CSV)
LogExists(t) ==
    /\ pc[t] = "log_exists"
    /\ file_exists' = [file_exists EXCEPT ![t] = logs.exists]
    /\ pc' = [pc EXCEPT ![t] = "log_open"]
    /\ UNCHANGED <<user_text, retries, attempt, last_error, response, parsed,
                   model_text, result, log_entry, buffer, reply, logs,
                   started, served, calls, sleeps, genuine, only_nonjson,
                   lacked>>

\* open(LOGS_CSV, mode='a'): creates the file when it is not there
LogOpen(t) ==
    /\ pc[t] = "log_open"
    /\ logs' = [logs EXCEPT !.exists = TRUE]
    /\ pc' = [pc EXCEPT ![t] = "log_header"]
    /\ UNCHANGED <<user_text, retries, attempt, last_error, response, parsed,
                   model_text, result, log_entry, file_exists, buffer, reply,
                   started, served, calls, sleeps, genuine, only_nonjson,
                   lacked>>

\* if not file_exists: writer.writeheader()
LogHeader(t) ==
    /\ pc[t] = "log_header"
    /\ buffer' = [buffer EXCEPT ![t] = @ \o HeaderIfNew(file_exists[t])]
    /\ pc' = [pc EXCEPT ![t] = "log_row"]
    /\ UNCHANGED <<user_text, retries, attempt, last_error, response, parsed,
                   model_text, result, log_entry, file_exists, reply, logs,
                   started, served, calls, sleeps, genuine, only_nonjson,
                   lacked>>

\* writer.writerow(entry)
LogRow(t) ==
    /\ pc[t] = "log_row"
    /\ buffer' = [buffer EXCEPT ![t] = Append(@, DataRow(log_entry[t]))]
    /\ pc' = [pc EXCEPT ![t] = "log_close"]
    /\ UNCHANGED <<user_text, retries, attempt, last_error, response, parsed,
                   model_text, result, log_entry, file_exists, reply, logs,
                   started, served, calls, sleeps, genuine, only_nonjson,
                   lacked>>

\* the file object spills its buffer to the file before it is closed (it
\* does when the buffer fills up)
LogFlush(t) ==
    /\ pc[t] \in {"log_row", "log_close"}
    /\ buffer[t] # <<>>
    /\ logs' = [logs EXCEPT !.rows = @ \o buffer[t]]
    /\ buffer' = [buffer EXCEPT ![t] = <<>>]
    /\ UNCHANGED <<pc, user_text, retries, attempt, last_error, response,
                   parsed, model_text, result, log_entry, file_exists, reply,
                   started, served, calls, sleeps, genuine, only_nonjson,
                   lacked>>

\* the end of the with block: the rest of the buffer reaches the file
LogClose(t) ==
    /\ pc[t] = "log_close"
    /\ logs' = [logs EXCEPT !.rows = @ \o buffer[t]]
    /\ buffer' = [buffer EXCEPT ![t] = <<>>]
    /\ pc' = [pc EXCEPT ![t] = "respond"]
    /\ UNCHANGED <<user_text, retries, attempt, last_error, response, parsed,
                   model_text, result, log_entry, file_exists, reply,
                   started, served, calls, sleeps, genuine, only_nonjson,
                   lacked>>

\* return jsonify(result), 200: line 174; analyze's locals are gone
Respond(t) ==
    /\ pc[t] = "respond"
    /\ reply' = [reply EXCEPT ![t] = Reply200(result[t])]
    /\ served' = served + 1
    /\ pc' = [pc EXCEPT ![t] = "idle"]
    /\ user_text' = [user_text EXCEPT ![t] = <<>>]
    /\ parsed' = [parsed EXCEPT ![t] = Null]
    /\ model_text' = [model_text EXCEPT ![t] = <<>>]
    /\ result' = [result EXCEPT ![t] = NoResult]
    /\ log_entry' = [log_entry EXCEPT ![t] = NoEntry]
    /\ file_exists' = [file_exists EXCEPT ![t] = FALSE]
    /\ UNCHANGED <<retries, attempt, last_error, response, buffer, logs,
                   started, calls, sleeps, genuine, only_nonjson, lacked>>

(***************************************************************************)
(* The specifications.                                                     *)
(***************************************************************************)
Budgets == 0..MaxRetries

Next ==
    \/ \E t \in Threads, body \in Bodies, r \in Budgets : Receive(t, body, r)
    \/ \E t \in Threads : CreateRaises(t)
    \/ \E t \in Threads, resp \in Outcomes : CreateReturns(t, resp)
    \/ \E t \in Threads : EnvelopeRaises(t)
    \/ \E t \in Threads : AttemptReturns(t)
    \/ \E t \in Threads : AttemptFails(t)
    \/ \E t \in Threads : Fallback(t)
    \/ \E t \in Threads : Normalize(t)
    \/ \E t \in Threads : LogExists(t)
    \/ \E t \in Threads : LogOpen(t)
    \/ \E t \in Threads : LogHeader(t)
    \/ \E t \in Threads : LogRow(t)
    \/ \E t \in Threads : LogFlush(t)
    \/ \E t \in Threads : LogClose(t)
    \/ \E t \in Threads : Respond(t)

Spec == Init /\ [][Next]_vars

\* requests on several threads at once, the provider answering every call
\* as the prompt asks
NextConc ==
    \/ \E t \in Threads, body \in Bodies, r \in Budgets : Receive(t, body, r)
    \/ \E t \in Threads, resp \in GoodOutcomes : CreateReturns(t, resp)
    \/ \E t \in Threads : AttemptReturns(t)
    \/ \E t \in Threads : Normalize(t)
    \/ \E t \in Threads : LogExists(t)
    \/ \E t \in Threads : LogOpen(t)
    \/ \E t \in Threads : LogHeader(t)
    \/ \E t \in Threads : LogRow(t)
    \/ \E t \in Threads : LogFlush(t)
    \/ \E t \in Threads : LogClose(t)
    \/ \E t \in Threads : Respond(t)

SpecConc == InitConc /\ [][NextConc]_vars

(***************************************************************************)
(* Properties.                                                             *)
(***************************************************************************)
\* the positions at which call_model is running
InCallModel == {"create", "parse", "exhausted"}

\* the positions at which analyze holds its result
ResultReady ==
    {"log_exists", "log_open", "log_header", "log_row", "log_close", "respond"}

PlaceholderList == List(<<PlaceholderSource>>)

\* the response body has what the contract promises
WellFormedBody(res) ==
    /\ res.conclusion # Null
    /\ res.explanation # Null
    /\ res.sources.t = "list"
    /\ Len(res.sources.items) >= 1

\* C1: every 200 response of /analyze carries a non-null conclusion, a
\* non-null explanation and a sources list of at least one entry, whatever
\* the provider did on each attempt.
C1_WellFormed200 ==
    \A t \in Threads :
        reply[t].status = 200 => WellFormedBody(reply[t].result)

\* a body whose text is absent, empty or made of blanks only
Blank(body) ==
    \/ body.kind = "absent"
    \/ body.kind = "string" /\ \A i \in 1..Len(body.text) : body.text[i] = " "

\* C2: a request whose text is absent, empty or whitespace-only is answered
\* 400 with the body {"error": "No text provided."}, and goes no further.
C2_BlankIs400 ==
    [][\A t \in Threads, body \in Bodies, r \in Budgets :
         (Blank(body) /\ Receive(t, body, r)) =>
             /\ reply'[t] = [status |-> 400, error |-> "No text provided.",
                             result |-> NoResult]
             /\ pc'[t] = "idle"]_vars

C2_Witness == \E t \in Threads : reply[t].status = 400

\* C3: call_model never fails outward and the string it returns is a
\* syntactically valid JSON object: while it runs it is inside its loop with
\* an attempt within the budget, or past the loop, every response it has
\* to handle is one it handles, and once it has returned the string parses,
\* as a whole, to an object.
C3_ReturnsJsonObject ==
    \A t \in Threads :
        /\ pc[t] \in {"create", "parse"} => attempt[t] < retries[t] + 1
        /\ pc[t] = "parse" => response[t].kind \in {"nochoices", "nocontent", "text"}
        /\ pc[t] = "exhausted" => attempt[t] = retries[t] + 1
        /\ pc[t] = "normalize" =>
              /\ JsonLoads(model_text[t]).ok
              /\ JsonLoads(model_text[t]).v.t = "obj"

\* call_model returned the default structure after total failure of the
\* provider, under the default budget
C3_Witness ==
    \E t \in Threads :
        /\ pc[t] = "normalize"
        /\ calls[t] = 3
        /\ sleeps[t] = 3
        /\ ~only_nonjson[t]

\* C4: when the provider returned, on every attempt, a text that holds no
\* parseable JSON, the result has conclusion "unknown" and exactly the
\* placeholder source.
C4_NonJsonGivesFallback ==
    \A t \in Threads :
        /\ (pc[t] \in ResultReady /\ only_nonjson[t]) =>
              /\ result[t].conclusion = Str(StrUnknown)
              /\ result[t].sources = PlaceholderList
        /\ (reply[t].status = 200 /\ only_nonjson[t]) =>
              /\ reply[t].result.conclusion = Str(StrUnknown)
              /\ reply[t].result.sources = PlaceholderList

C4_Witness ==
    \E t \in Threads :
        /\ reply[t].status = 200
        /\ only_nonjson[t]
        /\ calls[t] = 3

\* the rows of the file are a header followed by n data rows of three cells
HeaderThenData(rows, n) ==
    /\ Len(rows) = n + 1
    /\ rows[1] = [kind |-> "header",
                  cells |-> <<"timestamp", "user_text", "result">>]
    /\ \A i \in 2..Len(rows) : rows[i].kind = "data" /\ Len(rows[i].cells) = 3

\* C5: with requests handled one after another and the log file absent at
\* the start, after N >= 1 requests answered 200 the file holds the header
\* row and then N data rows of three cells each; requests answered 400 add
\* no row (before the first 200 the file does not exist).
C5_HeaderPlusN ==
    pc[1] = "idle" =>
        IF served = 0
        THEN ~logs.exists /\ logs.rows = <<>>
        ELSE logs.exists /\ HeaderThenData(logs.rows, served)

C5_Witness ==
    /\ pc[1] = "idle"
    /\ served = 2
    /\ reply[1].status = 400

\* C6: when the provider's answer is a JSON object without the sources key,
\* the result's sources is the one-element list of the placeholder source.
C6_MissingSourcesFilled ==
    \A t \in Threads :
        /\ (pc[t] \in ResultReady /\ lacked[t]) =>
              result[t].sources = PlaceholderList
        /\ (reply[t].status = 200 /\ lacked[t]) =>
              reply[t].result.sources = PlaceholderList

\* the answer was accepted on the first attempt and had no sources key
C6_Witness ==
    \E t \in Threads :
        /\ reply[t].status = 200
        /\ lacked[t]
        /\ calls[t] = 1
        /\ reply[t].result.conclusion = Str(StrRumor)

\* C7: the extraction step (brace-bounded substring, parse, backfill,
\* serialize) applied to the string call_model returned gives that string
\* again, and the re-parse in analyze recovers the object call_model
\* serialized.
C7_ExtractionIdempotent ==
    \A t \in Threads :
        pc[t] = "normalize" =>
            /\ Accepts(ModelParse(model_text[t]))
            /\ ModelReturn(ModelParse(model_text[t])) = model_text[t]
            /\ ModelParse(model_text[t]) = parsed[t]
            /\ AnalyzeParse(model_text[t]) = parsed[t]

\* the returned object holds a string with braces in it, and a nested object
C7_Witness ==
    \E t \in Threads :
        /\ pc[t] = "normalize"
        /\ Get(parsed[t], KeyExplanation) = Str(StrBraces)
        /\ Get(parsed[t], KeySources) = List(<<NihSource>>)
        /\ Get(parsed[t], KeyConclusion) = Str(StrUnknown)

\* C8: on an attempt whose brace-bounded substring parses as JSON, the
\* empty object included, call_model backfills the missing keys and returns
\* the serialization at once, with no further call and no sleep.
C8_ParseableReturnsAtOnce ==
    [][\A t \in Threads :
         (/\ pc[t] = "parse"
          /\ pc'[t] # "parse"
          /\ AttemptKind(response[t]) = "parseable") =>
             /\ pc'[t] = "normalize"
             /\ model_text'[t] =
                  JsonDumps(Backfill(JsonLoads(ExtractBraces(ResponseText(response[t]))).v))
             /\ calls'[t] = calls[t]
             /\ sleeps'[t] = sleeps[t]]_vars

\* C9: one call_model run with budget r issues at most r+1 calls, one
\* after another; the default structure is returned only after r+1 attempts
\* that each failed by exception or by unparseable output; a failed attempt
\* is followed by the next attempt while budget remains.
C9_RetryDiscipline ==
    /\ [](\A t \in Threads :
            /\ pc[t] \in InCallModel => calls[t] <= retries[t] + 1
            /\ pc[t] = "parse" => calls[t] = attempt[t] + 1
            /\ pc[t] = "exhausted" =>
                  /\ calls[t] = retries[t] + 1
                  /\ sleeps[t] = retries[t] + 1
                  /\ genuine[t])
    /\ [][\A t \in Threads :
            (/\ pc[t] \in {"create", "parse"}
             /\ attempt'[t] = attempt[t] + 1
             /\ attempt'[t] <= retries[t]) => pc'[t] = "create"]_vars

\* C10: with requests running concurrently and the log file absent at the
\* start, in every interleaving of the steps of append_log the log ends with
\* exactly one header row, before every data row, and one data row for each
\* request answered.
C10_OneHeaderUnderConcurrency ==
    ((\A t \in Threads : pc[t] = "idle") /\ served >= 1) =>
        HeaderThenData(logs.rows, served)

====
